---- MODULE Spec2Model ----
(***************************************************************************)
(* The swap-and-burn bots of incineratorlabs as one state machine.         *)
(*                                                                         *)
(*   src/burn.js            buyAndBurnToken: optional creator-fee claim,   *)
(*                          native balance check, Jupiter swap, burn of    *)
(*                          the whole token balance                        *)
(*   src/unnamed/part_001   burnHalfTokenBalance: burn of half the balance *)
(*   src/unnamed/part_000   burnHalfTokenBalance wrapped in retry(), then  *)
(*                          a tweet (lines 93-204)                         *)
(*                                                                         *)
(* A process runs one of the three scripts (variant).  One action is one   *)
(* step of a cycle between two awaits.  Native amounts are counted in      *)
(* units of LAMPORTS_PER_UNIT lamports, token amounts in base units.       *)
(***************************************************************************)
EXTENDS Integers, Sequences, FiniteSets, TLC

(* ------------------------------ bounds -------------------------------- *)

\* scheduled invocations explored per behaviour
MaxCycles == 3
\* native balances 0..MaxNative (units) can be read, besides ScenarioNative
MaxNative == 3
\* the token account starts with 0..MaxToken base units, or ScenarioToken
MaxToken == 7

\* sockets the script opens, and log lines it emits on its own
MaxSockets == 3
MaxLines == 3

(* ------------------------- program constants -------------------------- *)

\* rpcWithRetry / fetchWithRetry: maxRetries = 5, baseDelay = 500
MaxRetries == 5
BaseDelay == 500
\* retry(fn, retries = 3, delayMs = 5000)
Retries == 3
\* parseFloat(process.env.BURN_RATIO) || 0.01, in hundredths
DEFAULT_BURN_RATIO == 1
\* 1e9 lamports per SOL, the factor of MIN_BALANCE_SOL
LAMPORTS_PER_SOL == 1000000000
\* the unit of native amounts in this module: 1e7 lamports (0.01 SOL)
LAMPORTS_PER_UNIT == 10000000

\* the end-to-end scenario: 10,000,000,000 lamports and 1,000,000 tokens
ScenarioNative == 1000
ScenarioToken == 1000000

Variants == {"buyAndBurn", "half", "halfRetry"}

\* process.env.BURN_RATIO in hundredths; 0 stands for unset, 0 or not a number
EnvBurnRatios == {0, 3}

NativeBalances == (0 .. MaxNative) \cup {ScenarioNative}
TokenBalances == (0 .. MaxToken) \cup {ScenarioToken}

(* ------------------------------ errors -------------------------------- *)

\* An error is its message (a sequence of words) and the HTTP status of its
\* response (0: no response).
Err429 == [msg |-> <<"429", "Too Many Requests">>, status |-> 429]
ErrOther == [msg |-> <<"failed", "to", "fetch">>, status |-> 500]
ErrMaxRetries == [msg |-> <<"Max", "retries", "exceeded.">>, status |-> 0]
NoError == [msg |-> <<>>, status |-> 0]
\* TokenAccountNotFoundError of getAccount
ErrNotFound == [msg |-> <<"TokenAccountNotFoundError">>, status |-> 0]

\* what a network call can fail with
NetErrors == {Err429, ErrOther}

\* error.message.includes('429')
MessageIncludes429(e) == \E i \in 1 .. Len(e.msg) : e.msg[i] = "429"

\* error.response?.status === 429
ResponseStatus429(e) == e.status = 429

\* (variant: every error with a response status at or above 429 is retried)
IsRateLimit_AnyStatus(kind, e) == e.status >= 429

\* the rate-limit test of the executor: rpcWithRetry reads the message,
\* fetchWithRetry the response status
IsRateLimit(kind, e) ==
  IF kind = "rpc" THEN MessageIncludes429(e) ELSE ResponseStatus429(e)

(* --------------------------- retry executor --------------------------- *)

\* (variant: a delay growing linearly)
BackoffDelay_Linear(baseDelay, attempt) == baseDelay * (attempt + 1)

\* const delay = baseDelay * 2 ** attempt
BackoffDelay(baseDelay, attempt) == baseDelay * 2 ^ attempt

\* the state of one call of rpcWithRetry / fetchWithRetry
\* (calls: invocations of the wrapped operation, seen: what each came back
\* with, delays: the back-off delays waited, in order)
RetryIdle ==
  [kind |-> "none", attempt |-> 0, calls |-> 0, seen |-> <<>>, delays |-> <<>>,
   out |-> "idle", err |-> NoError]

RetryBegin(kind) ==
  [kind |-> kind, attempt |-> 0, calls |-> 0, seen |-> <<>>, delays |-> <<>>,
   out |-> "running", err |-> NoError]

\* (variant: one iteration too many)
LoopContinues_Inclusive(attempt) == attempt <= MaxRetries

\* for (let attempt = 0; attempt < maxRetries; attempt++)
LoopContinues(attempt) == attempt < MaxRetries

\* the catch clause of the loop body: a rate-limit error waits and goes on
\* to the next attempt (the loop ends at maxRetries and the terminal error
\* is thrown), any other error is thrown as it is
RetryCatch(r, e) ==
  IF IsRateLimit(r.kind, e)
  THEN LET waited == [r EXCEPT !.delays = Append(@, BackoffDelay(BaseDelay, r.attempt)),
                               !.attempt = @ + 1]
       IN IF LoopContinues(waited.attempt)
          THEN waited
          ELSE [waited EXCEPT !.out = "thrown", !.err = ErrMaxRetries]
  ELSE [r EXCEPT !.out = "thrown", !.err = e]

\* one iteration of the loop: the wrapped operation is invoked once and
\* either returns (res = NoError) or fails with res
RetryStep(r, res) ==
  LET called == [r EXCEPT !.calls = @ + 1, !.seen = Append(@, res)]
  IN IF res = NoError
     THEN [called EXCEPT !.out = "ok"]
     ELSE RetryCatch(called, res)

(* ------------------------------ config -------------------------------- *)

VARIABLES
  variant,        \* the script this process runs
  envBurnRatio,   \* process.env.BURN_RATIO
  PUMPSWAP_REWARD,\* process.env.PUMPSWAP_REWARD === 'true'
  tokenAcct,      \* amount held by the associated token account on chain
  cycles,         \* invocations the scheduler has started
  pc,             \* the step the cycle in flight is at ("idle": none)
  rx,             \* the rpcWithRetry / fetchWithRetry call of the cycle
  retryI,         \* i of retry() (part_000)
  calls,          \* network calls issued in the cycle, per leg
  balance,        \* native balance read in the cycle (-1: not read)
  amountToUse,    \* balance - MIN_BALANCE_SOL of the balance read
  routes,         \* quote.routes of the cycle's quote response
  tokenBalance,   \* token balance read in the cycle (-1: not read)
  burnIxs,        \* amounts of the burn instructions built in the cycle
  burned,         \* amount the cycle's burn transactions took off the account
  netFailed,      \* some network call of the cycle failed
  result,         \* outcome of the cycle
  exit,           \* how the last invocation ended: returned or rejected
  prevResult,     \* outcome of the invocation before this one
  startedZeroed,  \* this invocation began after burns had emptied the account
  pending,        \* invocations fired while another was running, at their first await
  errs,           \* the failed network calls of the cycle: leg and error, in order
  logStream       \* the dashboard connection ws, its reconnect timers and the log lines

vars ==
  <<variant, envBurnRatio, PUMPSWAP_REWARD, tokenAcct, cycles, pc, rx, retryI,
    calls, balance, amountToUse, routes, tokenBalance, burnIxs, burned,
    netFailed, result, exit, prevResult, startedZeroed, pending, errs, logStream>>

Legs ==
  {"claimBlockhash", "claimSend", "getBalance", "quote", "swapInstructions",
   "getAccount", "burnBlockhash", "burnSend", "tweet"}

NoCalls == [l \in Legs |-> 0]

Called(leg) == [calls EXCEPT ![leg] = @ + 1]

\* the call of leg came back with res
Outcome(leg, res) ==
  /\ netFailed' = (netFailed \/ res # NoError)
  /\ errs' = IF res = NoError THEN errs ELSE Append(errs, [leg |-> leg, err |-> res])

\* const BURN_RATIO = parseFloat(process.env.BURN_RATIO) || 0.01 (hundredths)
BURN_RATIO == IF envBurnRatio # 0 THEN envBurnRatio ELSE DEFAULT_BURN_RATIO

\* const MIN_BALANCE_SOL = BURN_RATIO * 1e9, in units (ratios whose product
\* with 1e9 is a whole number of units; a fractional spend would make
\* BigInt(amountToUse) throw into the catch of buyAndBurnToken)
MIN_BALANCE_SOL == BURN_RATIO * ((LAMPORTS_PER_SOL \div 100) \div LAMPORTS_PER_UNIT)

\* quote.routes: absent, empty, or the routes best first
NoRoutesField == <<"absent">>
QuoteRoutes == {NoRoutesField, <<>>, <<"r1">>, <<"r1", "r2">>}

\* (variant: an empty list is taken for a route)
NoRouteFound_AbsentOnly(rs) == rs = NoRoutesField

\* !quote.routes || quote.routes.length === 0
NoRouteFound(rs) == rs = NoRoutesField \/ Len(rs) = 0

\* the script before line 50, and the scripts without a dashboard connection
NoStream ==
  [readyState |-> "none", live |-> 0, timers |-> 0, sockets |-> 0, closes |-> 0,
   scheduled |-> 0, errors |-> 0, lines |-> 0, printed |-> 0, sent |-> 0,
   raised |-> FALSE,
   last |-> [at |-> "none", sent |-> FALSE]]

\* initWebSocket: ws = new WebSocket(url), a socket in CONNECTING with the
\* three handlers on it
initWebSocket(st) ==
  [st EXCEPT !.readyState = "CONNECTING", !.live = @ + 1, !.sockets = @ + 1]

\* if (ws && ws.readyState === WebSocket.OPEN) ws.send(fullMsg)
SendsLine(ready) == ready = "OPEN"

\* fancyLog: the line is printed with console.log, then sent if the socket
\* is open; ws.send on a socket still CONNECTING throws
fancyLog(st) ==
  LET printed == [st EXCEPT !.printed = @ + 1]
  IN IF SendsLine(st.readyState)
     THEN [printed EXCEPT !.sent = @ + 1,
                          !.raised = @ \/ st.readyState = "CONNECTING",
                          !.last = [at |-> st.readyState, sent |-> TRUE]]
     ELSE [printed EXCEPT !.last = [at |-> st.readyState, sent |-> FALSE]]

\* (variant: the error handler asks for a reconnect as well)
ReconnectsOn_ErrorToo(event) == event \in {"close", "error"}

\* setTimeout(initWebSocket, 3000) stands in the close handler only
ReconnectsOn(event) == event = "close"

\* a handler has run: a reconnect timer is set if it asks for one
Handled(st, event) ==
  IF ReconnectsOn(event)
  THEN [st EXCEPT !.timers = @ + 1, !.scheduled = @ + 1]
  ELSE st

Init ==
  /\ variant \in Variants
  /\ envBurnRatio \in (IF variant = "buyAndBurn" THEN EnvBurnRatios ELSE {0})
  /\ PUMPSWAP_REWARD \in (IF variant = "buyAndBurn" THEN BOOLEAN ELSE {FALSE})
  /\ tokenAcct \in TokenBalances
  /\ cycles = 0
  /\ pc = "idle"
  /\ rx = RetryIdle
  /\ retryI = 0
  /\ calls = NoCalls
  /\ balance = -1
  /\ amountToUse = 0
  /\ routes = NoRoutesField
  /\ tokenBalance = -1
  /\ burnIxs = <<>>
  /\ burned = 0
  /\ netFailed = FALSE
  /\ result = "none"
  /\ exit = "none"
  /\ prevResult = "none"
  /\ startedZeroed = FALSE
  /\ pending = 0
  /\ errs = <<>>
  /\ logStream = IF variant = "buyAndBurn" THEN initWebSocket(NoStream) ELSE NoStream

(* ------------------------- control of a cycle ------------------------- *)

cfg ==
  <<variant, envBurnRatio, PUMPSWAP_REWARD, prevResult, startedZeroed, pending, logStream>>

\* go on to step p of the cycle
Goto(p) == pc' = p /\ UNCHANGED <<result, exit>>

\* the invocation returns normally with outcome res
Return(res) == pc' = "idle" /\ result' = res /\ exit' = "returned"

\* the invocation's promise rejects: the error leaves the cycle function
Reject == pc' = "idle" /\ result' = "uncaught" /\ exit' = "rejected"

\* (variant: the retrying script lets the error out)
OuterTryCatches_NotRetry(v) == v \in {"buyAndBurn", "half"}

\* the try block of the cycle function spans its whole body:
\* buyAndBurnToken (burn.js 188-239), burnHalfTokenBalance (part_001 47-66,
\* part_000 163-201)
OuterTryCatches(v) == v \in {"buyAndBurn", "half", "halfRetry"}

\* an error reaches the end of the cycle function's body
ThrowToCycle == IF OuterTryCatches(variant) THEN Return("error") ELSE Reject

\* the legs of claimPumpFunCreatorFee inside its try block (burn.js 180-185)
ClaimTryCovers(leg) == leg = "claimSend"

\* an error in leg of claimPumpFunCreatorFee: logged by its own catch, and the
\* cycle goes on, or thrown to the caller
ClaimThrows(leg) == IF ClaimTryCovers(leg) THEN Goto("getBalance") ELSE ThrowToCycle

\* names bound by the require of @solana/web3.js (burn.js 3-10)
Web3Imports ==
  {"Connection", "Keypair", "PublicKey", "Transaction", "TransactionInstruction",
   "sendAndConfirmTransaction"}

\* (variant: the loop goes round again whatever the count)
RetryAgain_Always(i) == TRUE

\* retry(): if (i < retries - 1) wait delayMs and go round again, else throw
RetryAgain(i) == i < Retries - 1

\* (variant: a spend of exactly 0 goes through)
InsufficientBalance_Strict(amt) == amt < 0

\* if (amountToUse <= 0)
InsufficientBalance(amt) == amt <= 0

\* (variant: the zero check never fires)
IsZeroBalance_Never(b) == b < 0

\* if (tokenBalance === BigInt(0))
IsZeroBalance(b) == b = 0

\* the amount handed to createBurnInstruction: tokenBalance in buyAndBurnToken,
\* tokenBalance / BigInt(2) in burnHalfTokenBalance
BurnAmount(v, b) == IF v = "buyAndBurn" THEN b ELSE b \div 2

\* (variant: the amount is handed back whatever getAccount did)
getTokenAccountBalance_Unguarded(res) == tokenAcct

\* getTokenAccountBalance: accountInfo.amount, or BigInt(0) on any error
getTokenAccountBalance(res) == IF res = NoError THEN tokenAcct ELSE 0

\* what getAccount can come back with: an account that is absent holds nothing
GetAccountOutcomes ==
  {NoError} \cup NetErrors \cup (IF tokenAcct = 0 THEN {ErrNotFound} ELSE {})

(* ------------------------------ actions ------------------------------- *)

\* (variant: the balance is read without waiting for the claim)
FirstStep_SkipClaim(v, reward) == IF v = "buyAndBurn" THEN "getBalance" ELSE "getAccount"

\* the first await of the cycle function: if (PUMPSWAP_REWARD) await
\* claimPumpFunCreatorFee() comes before connection.getBalance (burn.js
\* 191-197); burnHalfTokenBalance starts with the token account read
FirstStep(v, reward) ==
  IF v = "buyAndBurn"
  THEN (IF reward THEN "claimBlockhash" ELSE "getBalance")
  ELSE "getAccount"

\* the cycle function is entered and runs to its first await
Begin ==
  /\ pc' = FirstStep(variant, PUMPSWAP_REWARD)
  /\ rx' = IF variant = "buyAndBurn" /\ PUMPSWAP_REWARD THEN RetryBegin("rpc") ELSE RetryIdle
  /\ retryI' = 0
  /\ calls' = NoCalls
  /\ balance' = -1
  /\ amountToUse' = 0
  /\ routes' = NoRoutesField
  /\ tokenBalance' = -1
  /\ burnIxs' = <<>>
  /\ burned' = 0
  /\ netFailed' = FALSE
  /\ errs' = <<>>
  /\ result' = "none"
  /\ exit' = "none"
  /\ prevResult' = result
  /\ startedZeroed' = (tokenAcct = 0 /\ (burned > 0 \/ startedZeroed))
  /\ UNCHANGED <<variant, envBurnRatio, PUMPSWAP_REWARD, tokenAcct, logStream>>

\* schedule.scheduleJob fires the cycle function, which runs to its first
\* await; an invocation that rejected has taken the process down
Tick ==
  /\ pc = "idle"
  /\ exit # "rejected"
  /\ cycles < MaxCycles
  /\ cycles' = cycles + 1
  /\ Begin
  /\ UNCHANGED pending

\* the schedule comes round while an invocation is still awaiting: the job
\* is called again (nothing in the scripts or the registration holds it
\* back) and the new invocation reaches its first await
TickOverlap ==
  /\ pc # "idle"
  /\ cycles < MaxCycles
  /\ cycles' = cycles + 1
  /\ pending' = pending + 1
  /\ UNCHANGED <<variant, envBurnRatio, PUMPSWAP_REWARD, tokenAcct, pc, rx, retryI,
                 calls, balance, amountToUse, routes, tokenBalance, burnIxs, burned,
                 netFailed, result, exit, prevResult, startedZeroed, errs, logStream>>

\* the steps of an invocation fired during another one are followed once
\* that one has returned
Resume ==
  /\ pc = "idle"
  /\ exit # "rejected"
  /\ pending > 0
  /\ pending' = pending - 1
  /\ Begin
  /\ UNCHANGED cycles

\* claimPumpFunCreatorFee: rpcWithRetry(() => connection.getLatestBlockhash())
ClaimBlockhash ==
  /\ pc = "claimBlockhash"
  /\ \E res \in {NoError} \cup NetErrors :
       LET r == RetryStep(rx, res)
       IN /\ rx' = r
          /\ Outcome("claimBlockhash", res)
          /\ IF r.out = "running" THEN Goto("claimBlockhash")
             ELSE IF r.out = "ok" THEN Goto("claimSend")
             ELSE ClaimThrows("claimBlockhash")
  /\ calls' = Called("claimBlockhash")
  /\ UNCHANGED <<cfg, tokenAcct, cycles, retryI, balance, amountToUse, routes,
                 tokenBalance, burnIxs, burned>>

\* claimPumpFunCreatorFee: sendAndConfirmTransaction in try / catch
ClaimSend ==
  /\ pc = "claimSend"
  /\ \E res \in {NoError} \cup NetErrors :
       /\ Outcome("claimSend", res)
       /\ IF res = NoError THEN Goto("getBalance") ELSE ClaimThrows("claimSend")
  /\ calls' = Called("claimSend")
  /\ UNCHANGED <<cfg, tokenAcct, cycles, rx, retryI, balance, amountToUse, routes,
                 tokenBalance, burnIxs, burned>>

\* buyAndBurnToken: connection.getBalance, amountToUse, the balance check
GetBalance ==
  /\ pc = "getBalance"
  /\ calls' = Called("getBalance")
  /\ \/ \E b \in NativeBalances :
          /\ balance' = b
          /\ amountToUse' = b - MIN_BALANCE_SOL
          /\ Outcome("getBalance", NoError)
          /\ IF InsufficientBalance(b - MIN_BALANCE_SOL)
             THEN Return("insufficient-balance") /\ rx' = rx
             ELSE Goto("quote") /\ rx' = RetryBegin("fetch")
     \/ \E e \in NetErrors :
          /\ Outcome("getBalance", e)
          /\ ThrowToCycle
          /\ UNCHANGED <<balance, amountToUse, rx>>
  /\ UNCHANGED <<cfg, tokenAcct, cycles, retryI, routes, tokenBalance, burnIxs, burned>>

\* executeJupiterSwap: fetchWithRetry('GET', .../quote), the route check
Quote ==
  /\ pc = "quote"
  /\ calls' = Called("quote")
  /\ \E res \in {NoError} \cup NetErrors :
       LET r == RetryStep(rx, res)
       IN /\ rx' = r
          /\ Outcome("quote", res)
          /\ IF r.out = "running" THEN Goto("quote") /\ routes' = routes
             ELSE IF r.out = "thrown" THEN Return("swap-failed") /\ routes' = routes
             ELSE \E rs \in QuoteRoutes :
                    /\ routes' = rs
                    /\ IF NoRouteFound(rs) THEN Return("no-route")
                       ELSE Goto("swapInstructions")
  /\ UNCHANGED <<cfg, tokenAcct, cycles, retryI, balance, amountToUse,
                 tokenBalance, burnIxs, burned>>

\* executeJupiterSwap: fetch(.../swap-instructions), which throws or answers
\* (a 429 answer carries no swapTransaction), then
\* VersionedTransaction.deserialize: the name is not among the imports, the
\* ReferenceError is caught at line 152 and the function returns null
SwapInstructions ==
  /\ pc = "swapInstructions"
  /\ calls' = Called("swapInstructions")
  /\ \E res \in {NoError} \cup NetErrors :
       /\ Outcome("swapInstructions", res)
       /\ IF res = NoError /\ "VersionedTransaction" \in Web3Imports
          THEN Goto("swapSend")
          ELSE Return("swap-failed")
  /\ UNCHANGED <<cfg, tokenAcct, cycles, rx, retryI, balance, amountToUse, routes,
                 tokenBalance, burnIxs, burned>>

\* a burn leg of burnHalfTokenBalance fails: retry() goes round again and
\* builds the instruction anew (part_000 175-176), or the error is thrown
BurnLegThrows ==
  IF variant = "halfRetry" /\ RetryAgain(retryI)
  THEN /\ retryI' = retryI + 1
       /\ burnIxs' = Append(burnIxs, BurnAmount(variant, tokenBalance))
       /\ Goto("burnBlockhash")
  ELSE /\ ThrowToCycle
       /\ UNCHANGED <<retryI, burnIxs>>

\* getTokenAccountBalance, the zero check, createBurnInstruction
TokenRead ==
  /\ pc = "getAccount"
  /\ calls' = Called("getAccount")
  /\ \E res \in GetAccountOutcomes :
       LET tb == getTokenAccountBalance(res)
       IN /\ tokenBalance' = tb
          /\ Outcome("getAccount", res)
          /\ IF IsZeroBalance(tb)
             THEN Return("zero-token-balance") /\ burnIxs' = burnIxs
             ELSE Goto("burnBlockhash") /\ burnIxs' = Append(burnIxs, BurnAmount(variant, tb))
  /\ UNCHANGED <<cfg, tokenAcct, cycles, rx, retryI, balance, amountToUse, routes, burned>>

\* burnHalfTokenBalance: connection.getLatestBlockhash()
BurnBlockhash ==
  /\ pc = "burnBlockhash"
  /\ calls' = Called("burnBlockhash")
  /\ \E res \in {NoError} \cup NetErrors :
       /\ Outcome("burnBlockhash", res)
       /\ IF res = NoError THEN Goto("burnSend") /\ UNCHANGED <<retryI, burnIxs>>
          ELSE BurnLegThrows
  /\ UNCHANGED <<cfg, tokenAcct, cycles, rx, balance, amountToUse, routes,
                 tokenBalance, burned>>

\* what sendAndConfirmTransaction can do with a burn of amt: the network
\* rejects it, it lands and is confirmed, or it lands and the confirmation
\* fails; it lands only if the account holds amt
SendOutcomes(amt) ==
  IF amt <= tokenAcct THEN {"rejected", "confirmed", "landedUnconfirmed"} ELSE {"rejected"}

\* burnHalfTokenBalance: sendAndConfirmTransaction of the burn
BurnSend ==
  /\ pc = "burnSend"
  /\ calls' = Called("burnSend")
  /\ LET amt == burnIxs[Len(burnIxs)]
     IN \E o \in SendOutcomes(amt) :
          /\ tokenAcct' = IF o = "rejected" THEN tokenAcct ELSE tokenAcct - amt
          /\ burned' = IF o = "rejected" THEN burned ELSE burned + amt
          /\ Outcome("burnSend", IF o = "confirmed" THEN NoError ELSE ErrOther)
          /\ IF o = "confirmed"
             THEN /\ burnIxs' = burnIxs
                  /\ retryI' = 0
                  /\ IF variant = "halfRetry" THEN Goto("tweet") ELSE Return("done")
             ELSE BurnLegThrows
  /\ UNCHANGED <<cfg, cycles, rx, balance, amountToUse, routes, tokenBalance>>

\* part_000: retry(async () => twitterClient.v2.tweet(...))
Tweet ==
  /\ pc = "tweet"
  /\ calls' = Called("tweet")
  /\ \E res \in {NoError} \cup NetErrors :
       /\ Outcome("tweet", res)
       /\ IF res = NoError THEN Return("done") /\ retryI' = retryI
          ELSE IF RetryAgain(retryI) THEN Goto("tweet") /\ retryI' = retryI + 1
          ELSE ThrowToCycle /\ retryI' = retryI
  /\ UNCHANGED <<cfg, tokenAcct, cycles, rx, balance, amountToUse, routes,
                 tokenBalance, burnIxs, burned>>

Next ==
  \/ Tick
  \/ ClaimBlockhash
  \/ ClaimSend
  \/ GetBalance
  \/ Quote
  \/ SwapInstructions
  \/ TokenRead
  \/ BurnBlockhash
  \/ BurnSend
  \/ Tweet

Spec == Init /\ [][Next]_vars

\* the awaits of a running invocation: each network call returns or fails
CycleStep ==
  \/ ClaimBlockhash
  \/ ClaimSend
  \/ GetBalance
  \/ Quote
  \/ SwapInstructions
  \/ TokenRead
  \/ BurnBlockhash
  \/ BurnSend
  \/ Tweet

\* the process on a network whose calls all come back in the end
SpecFair == Spec /\ WF_vars(CycleStep)

\* the cycle's variables, which the dashboard connection does not touch
cycleVars ==
  <<variant, envBurnRatio, PUMPSWAP_REWARD, tokenAcct, cycles, pc, rx, retryI,
    calls, balance, amountToUse, routes, tokenBalance, burnIxs, burned,
    netFailed, result, exit, prevResult, startedZeroed, pending, errs>>

\* 'open': the handshake is done and the handler logs over the open socket
WsOpen ==
  /\ logStream.readyState = "CONNECTING"
  /\ logStream' = Handled(fancyLog([logStream EXCEPT !.readyState = "OPEN"]), "open")
  /\ UNCHANGED cycleVars

\* 'error': a failed handshake or a broken connection; the socket is
\* closing when the handler logs the message
WsError ==
  /\ logStream.readyState \in {"CONNECTING", "OPEN"}
  /\ logStream' = Handled(fancyLog([logStream EXCEPT !.readyState = "CLOSING",
                                                     !.errors = @ + 1]), "error")
  /\ UNCHANGED cycleVars

\* 'close': emitted once per socket, after an error or when the peer or the
\* network ends the connection; the handler logs and sets the timer
WsClose ==
  /\ logStream.readyState \in {"OPEN", "CLOSING"}
  /\ logStream' = Handled(fancyLog([logStream EXCEPT !.readyState = "CLOSED",
                                                     !.live = @ - 1,
                                                     !.closes = @ + 1]), "close")
  /\ UNCHANGED cycleVars

\* the reconnect timer fires: initWebSocket
TimerFires ==
  /\ logStream.timers > 0
  /\ logStream.sockets < MaxSockets
  /\ logStream' = initWebSocket([logStream EXCEPT !.timers = @ - 1])
  /\ UNCHANGED cycleVars

\* logInfo / logSuccess / logError / logRetry called by the script
Log ==
  /\ variant = "buyAndBurn"
  /\ logStream.lines < MaxLines
  /\ logStream' = fancyLog([logStream EXCEPT !.lines = @ + 1])
  /\ UNCHANGED cycleVars

NextLog ==
  \/ WsOpen
  \/ WsError
  \/ WsClose
  \/ TimerFires
  \/ Log

\* the dashboard connection and the log lines of the script
SpecLog == Init /\ [][NextLog]_vars

\* the process with the schedule coming round during a cycle
NextOverlap == Next \/ TickOverlap \/ Resume

SpecOverlap == Init /\ [][NextOverlap]_vars

(* ------------------------------ claims -------------------------------- *)

\* the invocation has returned
Returned == pc = "idle" /\ exit = "returned"

\* no swap request, transaction submission or burn was issued in the cycle
NoSwapNoBurn ==
  /\ calls["swapInstructions"] = 0
  /\ calls["getAccount"] = 0
  /\ calls["burnBlockhash"] = 0
  /\ calls["burnSend"] = 0
  /\ burnIxs = <<>>
  /\ burned = 0

\* C1: in buyAndBurnToken, whenever the native balance read leaves
\* balance - MIN_BALANCE_SOL <= 0, the cycle ends as insufficient-balance and
\* no quote request, swap request, submission or burn is issued in it.
C1_InsufficientBalanceAborts ==
  (variant = "buyAndBurn" /\ balance # -1 /\ balance - MIN_BALANCE_SOL <= 0)
    => /\ Returned
       /\ result = "insufficient-balance"
       /\ calls["quote"] = 0
       /\ rx.kind # "fetch"
       /\ NoSwapNoBurn

\* C1 witness: a balance equal to the reserve (spend exactly 0) was read
C1_Witness ==
  /\ variant = "buyAndBurn"
  /\ balance = MIN_BALANCE_SOL
  /\ balance = 3
  /\ result = "insufficient-balance"

\* C2: a quote response whose routes are missing or empty ends the cycle as
\* no-route: nothing is requested, signed or submitted after it, and the
\* quote is not asked for again (its requests are the rate-limited ones plus
\* the one that was answered).
C2_NoRouteAborts ==
  (rx.kind = "fetch" /\ rx.out = "ok" /\ (routes = NoRoutesField \/ routes = <<>>))
    => /\ Returned
       /\ result = "no-route"
       /\ calls["quote"] = Len(rx.delays) + 1
       /\ NoSwapNoBurn

\* C2 witness: an empty route list came back after one rate-limited request
C2_Witness ==
  /\ rx.kind = "fetch"
  /\ rx.out = "ok"
  /\ routes = <<>>
  /\ calls["quote"] = 2
  /\ result = "no-route"

\* C3: in every variant a token balance read of 0 ends the cycle as
\* zero-token-balance with no burn instruction built or submitted; an
\* invocation that starts after burns emptied the account goes no further
\* than the token balance check.
C3_ZeroTokenBalanceAborts ==
  /\ tokenBalance = 0
       => /\ Returned
          /\ result = "zero-token-balance"
          /\ burnIxs = <<>>
          /\ calls["burnBlockhash"] = 0
          /\ calls["burnSend"] = 0
  /\ startedZeroed
       => /\ burnIxs = <<>>
          /\ calls["burnSend"] = 0
          /\ Returned => result = "zero-token-balance"

\* C3 witness: the invocation after the emptying burn read 0 and stopped
C3_Witness ==
  /\ startedZeroed
  /\ tokenBalance = 0
  /\ ~netFailed
  /\ result = "zero-token-balance"

\* C5: k rate-limit failures (k < maxRetries) followed by a success: the
\* executor is still invoking the operation after each of them, returns the
\* success after exactly k + 1 invocations, and has waited
\* baseDelay * 2^attempt for attempt = 0 .. k-1, in that order.
C5_RetriesThenSuccess ==
  LET n == Len(rx.seen)
      k == Cardinality({i \in 1 .. n : rx.seen[i] = Err429})
  IN /\ (rx.kind # "none" /\ k = n /\ k < MaxRetries) => rx.out = "running"
     /\ (n > 0 /\ k = n - 1 /\ rx.seen[n] = NoError)
          => /\ rx.out = "ok"
             /\ rx.calls = k + 1
             /\ k < MaxRetries
             /\ rx.delays = [a \in 1 .. k |-> BaseDelay * 2 ^ (a - 1)]

\* C5 witness: both executors' longest run, four rate limits and a success
C5_Witness ==
  /\ rx.out = "ok"
  /\ rx.seen = <<Err429, Err429, Err429, Err429, NoError>>
  /\ rx.delays = <<500, 1000, 2000, 4000>>

\* C6: maxRetries rate-limit failures in a row: the operation was invoked
\* exactly maxRetries times, never more, and the executor raised
\* 'Max retries exceeded.', an error other than the 429 one.
C6_MaxRetriesExceeded ==
  /\ rx.calls <= MaxRetries
  /\ (Len(rx.seen) >= MaxRetries /\ \A i \in 1 .. MaxRetries : rx.seen[i] = Err429)
       => /\ rx.calls = MaxRetries
          /\ rx.out = "thrown"
          /\ rx.err = ErrMaxRetries
          /\ rx.err # Err429
          /\ pc \notin {"claimBlockhash", "quote"}

\* C6 witness: the executor gave up after maxRetries rate limits
C6_Witness ==
  /\ rx.calls = MaxRetries
  /\ \A i \in 1 .. Len(rx.seen) : rx.seen[i] = Err429
  /\ rx.err = ErrMaxRetries

\* C7: a failure that is no rate-limit signal, at any attempt, is raised as
\* it is at once: the failed invocation is the last one and no delay is
\* waited for it.
C7_OtherErrorsPropagate ==
  LET n == Len(rx.seen)
  IN (n > 0 /\ rx.seen[n] = ErrOther)
       => /\ rx.out = "thrown"
          /\ rx.err = ErrOther
          /\ rx.calls = n
          /\ Len(rx.delays) = n - 1
          /\ pc \notin {"claimBlockhash", "quote"}

\* C7 witness: an other error at the third attempt, after two rate limits
C7_Witness ==
  /\ rx.seen = <<Err429, Err429, ErrOther>>
  /\ rx.out = "thrown"
  /\ rx.delays = <<500, 1000>>

\* C10: no failure of any step leaves buyAndBurnToken or burnHalfTokenBalance:
\* every invocation returns, and after it the scheduler can fire the next.
C10_CycleNeverThrows ==
  /\ exit # "rejected"
  /\ result # "uncaught"
  /\ (pc = "idle" /\ cycles < MaxCycles) => ENABLED Tick

\* C10 witness: a cycle failed in the outer catch, the next one ran and
\* failed there as well, and the invocation returned
C10_Witness ==
  /\ prevResult = "error"
  /\ result = "error"
  /\ Returned
  /\ variant = "halfRetry"

(* ----------------- claims the code does not meet ---------------------- *)

\* C4: the burn amount is the variant's: buyAndBurnToken burns the balance
\* read, leaving 0; burnHalfTokenBalance burns floor(balance / 2), leaving
\* balance - floor(balance / 2).
C4_BurnAmountPolicy ==
  /\ \A i \in 1 .. Len(burnIxs) :
       burnIxs[i] = IF variant = "buyAndBurn" THEN tokenBalance ELSE tokenBalance \div 2
  /\ (Returned /\ result = "done")
       => /\ variant = "buyAndBurn" => (burned = tokenBalance /\ tokenAcct = 0)
          /\ variant # "buyAndBurn"
               => /\ burned = tokenBalance \div 2
                  /\ tokenAcct = tokenBalance - (tokenBalance \div 2)

\* C8: balance 10,000,000,000 (1000 units), reserve ratio 0.01, one route and
\* no failing network call: buyAndBurnToken asks for a swap of 9,990,000,000
\* (999 units), burns all the tokens it holds and ends Done with balance 0.
C8_EndToEnd ==
  (/\ variant = "buyAndBurn"
   /\ Returned
   /\ BURN_RATIO = DEFAULT_BURN_RATIO
   /\ balance = ScenarioNative
   /\ routes = <<"r1">>
   /\ ~netFailed)
    => /\ amountToUse = 999
       /\ result = "done"
       /\ Len(burnIxs) = 1
       /\ tokenAcct = 0

\* C9: with the reward claim enabled, no failure of a step of
\* claimPumpFunCreatorFee ends the cycle: the native balance is read after it.
C9_ClaimNeverAborts ==
  (PUMPSWAP_REWARD /\ pc = "idle" /\ exit # "none") => calls["getBalance"] >= 1

\* C11: within one invocation at most one burn transaction is submitted: a
\* failed submission or confirmation ends the cycle, the burn is never built
\* and sent again, and no more than the amount computed once is burned.
C11_AtMostOneSubmission ==
  /\ calls["burnSend"] <= 1
  /\ Len(burnIxs) <= 1
  /\ burnIxs # <<>> => burned <= burnIxs[1]

\* C13: createBurnInstruction is only ever called with an amount above 0,
\* also in the half-balance cycle when the token balance is 1.
C13_BurnAmountPositive ==
  \A i \in 1 .. Len(burnIxs) : burnIxs[i] > 0

\* C19: in the half-balance variants the token balance never grows from one
\* step to the next, and a balance of at least 1 never becomes 0.
C19_HalfNeverEmpties ==
  [][variant # "buyAndBurn"
       => /\ tokenAcct' <= tokenAcct
          /\ tokenAcct >= 1 => tokenAcct' >= 1]_vars

\* invocations that have started and not returned
InFlight == (IF pc # "idle" THEN 1 ELSE 0) + pending

\* C12: at most one cycle is in flight at any time: the scheduler starts no
\* invocation while an earlier one has not returned.
C12_OneCycleInFlight == InFlight <= 1

\* the network legs of the swap and burn path of buyAndBurnToken
SwapBurnLegs == {"getBalance", "quote", "swapInstructions", "burnBlockhash", "burnSend"}

\* C16: every network leg of the swap and burn path of buyAndBurnToken is
\* retried on a rate limit: in a cycle whose only failure is one 429 on one of
\* these legs, that leg is invoked again and the cycle does not end in error.
C16_EveryLegRetried ==
  (/\ variant = "buyAndBurn"
   /\ Returned
   /\ Len(errs) = 1
   /\ errs[1].err = Err429
   /\ errs[1].leg \in SwapBurnLegs)
    => /\ calls[errs[1].leg] >= 2
       /\ result # "error"

\* C18: getTokenAccountBalance never raises and turns every failure of the
\* token account read into 0, a rate limit or network error as well as an
\* absent account, without a second read; the cycle then ends as
\* zero-token-balance with nothing built, sent or burned.
C18_ReadFailureIsZero ==
  (\E i \in 1 .. Len(errs) : errs[i].leg = "getAccount")
    => /\ tokenBalance = 0
       /\ calls["getAccount"] = 1
       /\ Returned
       /\ result = "zero-token-balance"
       /\ burnIxs = <<>>
       /\ calls["burnSend"] = 0
       /\ burned = 0

\* C18 witness: a rate-limited read of an account holding tokens
C18_Witness ==
  /\ errs = <<[leg |-> "getAccount", err |-> Err429]>>
  /\ tokenAcct > 0
  /\ result = "zero-token-balance"

\* executeJupiterSwap came back with a signature: the swap was sent and
\* its confirmation awaited (burn.js 146-150, 200-210)
SwapDone ==
  /\ calls["swapInstructions"] = 1
  /\ pc # "swapInstructions"
  /\ result # "swap-failed"

\* C15: the steps of one buyAndBurnToken cycle come in order, each on a
\* value read in that cycle: the native balance is read after the claim step
\* has finished, the quote is asked for the amount derived from that read, the
\* token balance is read only after the swap is done, and no burn is built or
\* submitted before the swap is done and the token balance read.
C15_StepsInOrder ==
  variant = "buyAndBurn"
    => /\ (PUMPSWAP_REWARD /\ calls["getBalance"] >= 1)
            => (calls["claimBlockhash"] >= 1 /\ calls["claimSend"] = 1)
       /\ calls["quote"] >= 1
            => /\ calls["getBalance"] = 1
               /\ balance >= 0
               /\ amountToUse = balance - MIN_BALANCE_SOL
       /\ calls["swapInstructions"] >= 1 => (routes # NoRoutesField /\ routes # <<>>)
       /\ calls["getAccount"] >= 1 => SwapDone
       /\ (burnIxs # <<>> \/ calls["burnSend"] >= 1)
            => (SwapDone /\ calls["getAccount"] >= 1)

\* C15 witness: a cycle with the claim step went through the claim, the
\* balance read, the quote and the swap request, in that order
C15_Witness ==
  /\ variant = "buyAndBurn"
  /\ PUMPSWAP_REWARD
  /\ calls["claimSend"] = 1
  /\ calls["getBalance"] = 1
  /\ calls["quote"] >= 1
  /\ calls["swapInstructions"] = 1
  /\ Returned

\* C17: every invocation of the cycle ends, in Done or Aborted, when each
\* network call comes back: the retry executors invoke at most maxRetries
\* times and wait at most maxRetries times, retry() goes round at most
\* retries times, and a running invocation always reaches its return.
C17_CycleTerminates ==
  /\ [](/\ rx.calls <= MaxRetries
        /\ Len(rx.delays) <= MaxRetries
        /\ retryI < Retries
        /\ Len(burnIxs) <= Retries)
  /\ (pc # "idle") ~> (pc = "idle" /\ exit = "returned" /\ result # "none")

\* C17 witness: an invocation that used up the retry executor's attempts and
\* its waits has ended
C17_Witness ==
  /\ pc = "idle"
  /\ exit = "returned"
  /\ result = "error"
  /\ rx.out = "thrown"
  /\ rx.calls = MaxRetries
  /\ Len(rx.delays) = MaxRetries
  /\ variant = "buyAndBurn"

\* C20: the dashboard connection: every close sets exactly one reconnect
\* timer and an error event sets none, live sockets and pending timers are
\* never more than one together, and a log line emitted while the socket is
\* not open is printed only: nothing is sent and nothing is raised.
C20_OneStreamNoRaise ==
  /\ logStream.live + logStream.timers <= 1
  /\ logStream.scheduled = logStream.closes
  /\ logStream.raised = FALSE
  /\ logStream.sent <= logStream.printed
  /\ logStream.last.sent => logStream.last.at = "OPEN"

\* C20 witness: the connection failed and closed twice, was opened a third
\* time, and a line was logged while the new socket was still connecting
C20_Witness ==
  /\ logStream.errors >= 1
  /\ logStream.closes = 2
  /\ logStream.sockets = 3
  /\ logStream.readyState = "CONNECTING"
  /\ logStream.last = [at |-> "CONNECTING", sent |-> FALSE]
  /\ logStream.sent >= 1

====
